---- MODULE Spec2Model ----
(***************************************************************************)
(* Model of wiz-ambilight: the control loop of ambilight.py (main and the   *)
(* functions it calls) and the discovery script find_bulb.py.              *)
(*                                                                         *)
(* Colours are triples <<r, g, b>>.  Floating-point expressions of the     *)
(* source are evaluated in exact rational arithmetic on integers           *)
(* (numerator / denominator) and truncated where the source calls int():   *)
(* 0.75*n + 0.25*o is exact in binary floating point; in enhance_color the  *)
(* float32 evaluation can land one unit beside the exact value at the last *)
(* int(), after every clamp has been applied.                              *)
(***************************************************************************)
EXTENDS Integers, Sequences, FiniteSets, TLC

VARIABLES
    pc,             \* position of main(): the call it is about to make
    last_color,     \* main: last_color
    no_vlc_count,   \* main: no_vlc_count
    geometry,       \* main: geometry (result of the last get_vlc_geometry)
    img,            \* main: img (result of the last capture_window)
    rgb,            \* main: r, g, b
    pre,            \* last_color, no_vlc_count, geometry when the iteration began
    captured,       \* what grim did in this iteration ("none" before capture)
    steps,          \* calls made in this iteration, in order
    printed,        \* lines printed in this iteration, in order
    sent,           \* colours of the datagrams handed to sendto in this iteration
    send_ok,        \* result of send_color_to_wiz in this iteration
    smoothed,       \* value of r, g, b after smooth_color in this iteration
    runWaiting,     \* "waiting" notices printed in the current run of misses
    frames,         \* iterations that reached the end of the loop body
    shadow,         \* a second run of main() fed the same locator and capture
                    \* results, whose sends succeed or fail on their own
    sm,             \* smooth_color applied repeatedly to one input channel
    fb              \* find_bulb.py: socket, replies in flight, output

mainVars == <<pc, last_color, no_vlc_count, geometry, img, rgb, pre, captured,
              steps, printed, sent, send_ok, smoothed, runWaiting, frames, shadow>>
vars == <<mainVars, sm, fb>>

----------------------------------------------------------------------------
(* Bounds of the model *)

\* misses in one run of misses (no_vlc_count is unbounded in the program)
MaxMiss == 11
\* iterations that run the colour transforms
MaxFrames == 3
\* applications of smooth_color to one constant input
MaxSmooth == 7

----------------------------------------------------------------------------
(* Values *)

None == "None"

Black == <<0, 0, 0>>

\* img = None, and an image: its pixel data and, once loaded, its edge pixels
NoneImg == [data |-> "none", edges |-> <<>>]

\* edge pixels a frame can show
Pixels == {<<100, 100, 100>>, <<200, 40, 40>>, <<0, 0, 255>>}

\* the edge rows of a captured frame
Frames == [1..2 -> Pixels]

Max2(a, b) == IF a >= b THEN a ELSE b
Min2(a, b) == IF a <= b THEN a ELSE b

InRange(c) == \A i \in 1..3 : c[i] \in 0..255

----------------------------------------------------------------------------
(* get_vlc_geometry *)

\* what `hyprctl clients -j` does: it times out, prints no JSON, lists no
\* client whose class contains "vlc", or lists one
HyprctlOutcomes == {"timeout", "badjson", "novlc", "vlc"}

get_vlc_geometry(o) == IF o = "vlc" THEN "geom" ELSE None

----------------------------------------------------------------------------
(* capture_window *)

\* what grim does: it times out, exits non-zero, exits 0 with bytes that are
\* no PNG, exits 0 with a PNG whose pixel data is cut short, or exits 0 with
\* a whole PNG
GrimOutcomes == {"timeout", "nonzero", "garbage", "truncated", "png"}

CaptureFailures == {"timeout", "nonzero", "garbage"}

capture_window_lenient(o, frame) ==
    IF o \in {"timeout", "garbage"} THEN NoneImg
    ELSE [data |-> IF o = "truncated" THEN "truncated" ELSE "whole", edges |-> frame]

\* Image.open reads the header only: it raises on bytes that are no PNG and
\* returns an image object for a PNG whose pixel data is cut short
capture_window(o, frame) ==
    IF o \in {"timeout", "nonzero", "garbage"} THEN NoneImg
    ELSE [data |-> IF o = "truncated" THEN "truncated" ELSE "whole", edges |-> frame]

----------------------------------------------------------------------------
(* extract_edge_average *)

RECURSIVE SumChannel(_, _)
SumChannel(px, i) ==
    IF px = <<>> THEN 0 ELSE Head(px)[i] + SumChannel(Tail(px), i)

\* edges.mean(axis=0).astype(int)
extract_edge_average(im) ==
    [i \in 1..3 |-> SumChannel(im.edges, i) \div Len(im.edges)]

\* img.resize loads the pixel data and raises when it is cut short
EdgeAverageRaises(im) == im.data = "truncated"

----------------------------------------------------------------------------
(* smooth_color *)

\* alpha = 0.75 = AlphaNum / AlphaDen
AlphaNum == 3
AlphaDen == 4

\* round to nearest, ties to even
smooth_channel_round(n, o) ==
    LET x == AlphaNum * n + (AlphaDen - AlphaNum) * o
        q == x \div AlphaDen
        r == x % AlphaDen
    IN  IF 2 * r < AlphaDen THEN q
        ELSE IF 2 * r > AlphaDen THEN q + 1
        ELSE IF q % 2 = 0 THEN q ELSE q + 1

\* int(alpha * n + (1 - alpha) * o): int() truncates
smooth_channel(n, o) ==
    (AlphaNum * n + (AlphaDen - AlphaNum) * o) \div AlphaDen

smooth_color(new_color, old_color) ==
    [i \in 1..3 |-> smooth_channel(new_color[i], old_color[i])]

----------------------------------------------------------------------------
(* enhance_color, sat_boost = 1.4 = 7/5, val_boost = 1.1 = 11/10 *)

\* s * sat_boost clamped to [0, 1], as <<numerator, denominator>>; s = delta/maxc
BoostedS(delta, maxc) ==
    IF 7 * delta >= 5 * maxc THEN <<1, 1>> ELSE <<7 * delta, 5 * maxc>>

BoostedVUnclamped(maxc) == <<11 * maxc, 10>>

\* 255 * (v * val_boost clamped to [0, 1]), as <<numerator, denominator>>;
\* v = maxc/255
BoostedV(maxc) ==
    IF 11 * maxc >= 2550 THEN <<255, 1>> ELSE <<11 * maxc, 10>>

\* h * 6 as a multiple of 1/delta
Hue6(c, maxc, delta) ==
    IF maxc = c[1] THEN (c[2] - c[3]) % (6 * delta)
    ELSE IF maxc = c[2] THEN (c[3] - c[1]) + 2 * delta
    ELSE (c[1] - c[2]) + 4 * delta

enhance_color(c) ==
    LET maxc  == Max2(c[1], Max2(c[2], c[3]))
        minc  == Min2(c[1], Min2(c[2], c[3]))
        delta == maxc - minc
        V     == BoostedV(maxc)
        v     == V[1] \div V[2]
    IN  IF delta = 0 THEN <<v, v, v>>
        ELSE
        LET S  == BoostedS(delta, maxc)
            h6 == Hue6(c, maxc, delta)
            i  == (h6 \div delta) % 6
            f  == h6 - (h6 \div delta) * delta
            \* int(255 * v * (num / (S[2] * delta)))
            Scale(num) == (V[1] * num) \div (V[2] * S[2] * delta)
            p  == Scale((S[2] - S[1]) * delta)
            q  == Scale(S[2] * delta - S[1] * f)
            t  == Scale(S[2] * delta - S[1] * (delta - f))
        IN  CASE i = 0 -> <<v, t, p>>
              [] i = 1 -> <<q, v, p>>
              [] i = 2 -> <<p, v, t>>
              [] i = 3 -> <<p, q, v>>
              [] i = 4 -> <<t, p, v>>
              [] OTHER -> <<v, p, q>>

----------------------------------------------------------------------------
(* main: decisions *)

WaitingDueEveryTenth(n) == n % 10 = 0

\* if no_vlc_count % 10 == 1
WaitingDue(n) == n % 10 = 1

DetectedDueAlways(n) == n >= 0

\* if no_vlc_count > 0
DetectedDue(n) == n > 0

NextLastColorIfSent(c, old, ok) == IF ok THEN c ELSE old

\* last_color = (r, g, b), after the send whatever it returned
NextLastColor(c, old, ok) == c

----------------------------------------------------------------------------
(* send_color_to_wiz *)

\* command = {"method": "setPilot", "params": {"r": int(r), "g": int(g), "b": int(b)}}
SetPilot(c) == [method |-> "setPilot", params |-> [r |-> c[1], g |-> c[2], b |-> c[3]]]

----------------------------------------------------------------------------
(* find_bulb.py *)

Responders == {"10.0.0.1", "10.0.0.2", "10.0.0.3"}

\* a reply datagram: its sender, and whether its bytes are UTF-8 text
Replies == [addr : Responders, text : BOOLEAN]

FbInit ==
    [pc |-> "start", open |-> FALSE, queries |-> 0, inflight |-> {},
     replied |-> {}, out |-> <<>>]

----------------------------------------------------------------------------
(* Initial states *)

SmIdle == [new |-> 0, prev |-> 0, cur |-> 0, n |-> 0]

MainInit ==
    /\ pc = "locate"
    /\ last_color = Black
    /\ no_vlc_count = 0
    /\ geometry = None
    /\ img = NoneImg
    /\ rgb = Black
    /\ pre = [last_color |-> Black, no_vlc_count |-> 0, geometry |-> None]
    /\ captured = "none"
    /\ steps = <<>>
    /\ printed = <<>>
    /\ sent = <<>>
    /\ send_ok = FALSE
    /\ smoothed = Black
    /\ runWaiting = 0
    /\ frames = 0
    /\ shadow = [last_color |-> Black, no_vlc_count |-> 0, rgb |-> Black,
                 send_ok |-> FALSE]

Init == MainInit /\ sm = SmIdle /\ fb = FbInit

----------------------------------------------------------------------------
(* main: one action per call of the loop body *)

\* lines 162-174: get_vlc_geometry, the miss branch, the "detected" branch
Locate ==
    /\ pc = "locate"
    /\ \E o \in HyprctlOutcomes :
         LET g == get_vlc_geometry(o) IN
         /\ geometry' = g
         /\ pre' = [last_color |-> last_color, no_vlc_count |-> no_vlc_count,
                    geometry |-> geometry]
         /\ steps' = <<"locate">>
         /\ sent' = <<>>
         /\ captured' = "none"
         /\ IF g = None
            THEN /\ no_vlc_count < MaxMiss
                 /\ no_vlc_count' = no_vlc_count + 1
                 /\ printed' = IF WaitingDue(no_vlc_count + 1)
                               THEN <<"waiting">> ELSE <<>>
                 /\ runWaiting' = IF WaitingDue(no_vlc_count + 1)
                                  THEN runWaiting + 1 ELSE runWaiting
                 /\ shadow' = [shadow EXCEPT !.no_vlc_count = @ + 1]
                 /\ pc' = "locate"
            ELSE /\ frames < MaxFrames
                 /\ printed' = IF DetectedDue(no_vlc_count)
                               THEN <<"detected">> ELSE <<>>
                 /\ no_vlc_count' = IF DetectedDue(no_vlc_count)
                                    THEN 0 ELSE no_vlc_count
                 /\ runWaiting' = IF DetectedDue(no_vlc_count)
                                  THEN 0 ELSE runWaiting
                 /\ shadow' = [shadow EXCEPT !.no_vlc_count =
                                 IF DetectedDue(@) THEN 0 ELSE @]
                 /\ pc' = "capture"
    /\ UNCHANGED <<last_color, img, rgb, send_ok, smoothed, frames, sm, fb>>

\* lines 176-179: capture_window, and the skip of the cycle when it returns None
Capture ==
    /\ pc = "capture"
    /\ \E o \in GrimOutcomes, frame \in Frames :
         /\ img' = capture_window(o, frame)
         /\ captured' = o
         /\ pc' = IF img' = NoneImg THEN "locate" ELSE "edge"
    /\ steps' = Append(steps, "capture")
    /\ UNCHANGED <<last_color, no_vlc_count, geometry, rgb, pre, printed, sent,
                   send_ok, smoothed, runWaiting, frames, shadow, sm, fb>>

\* line 182: extract_edge_average; an exception it raises leaves main()
EdgeAverage ==
    /\ pc = "edge"
    /\ steps' = Append(steps, "edge")
    /\ IF EdgeAverageRaises(img)
       THEN /\ pc' = "crashed"
            /\ UNCHANGED <<rgb, shadow>>
       ELSE /\ rgb' = extract_edge_average(img)
            /\ shadow' = [shadow EXCEPT !.rgb = extract_edge_average(img)]
            /\ pc' = "smooth"
    /\ UNCHANGED <<last_color, no_vlc_count, geometry, img, pre, captured,
                   printed, sent, send_ok, smoothed, runWaiting, frames, sm, fb>>

\* line 185
Smooth ==
    /\ pc = "smooth"
    /\ steps' = Append(steps, "smooth")
    /\ rgb' = smooth_color(rgb, last_color)
    /\ smoothed' = rgb'
    /\ shadow' = [shadow EXCEPT !.rgb = smooth_color(@, shadow.last_color)]
    /\ pc' = "enhance"
    /\ UNCHANGED <<last_color, no_vlc_count, geometry, img, pre, captured,
                   printed, sent, send_ok, runWaiting, frames, sm, fb>>

\* line 188
Enhance ==
    /\ pc = "enhance"
    /\ steps' = Append(steps, "enhance")
    /\ rgb' = enhance_color(rgb)
    /\ shadow' = [shadow EXCEPT !.rgb = enhance_color(@)]
    /\ pc' = "send"
    /\ UNCHANGED <<last_color, no_vlc_count, geometry, img, pre, captured,
                   printed, sent, send_ok, smoothed, runWaiting, frames, sm, fb>>

\* lines 190-197: send_color_to_wiz (it returns False when the socket call
\* raises), the readout, last_color = (r, g, b)
Send ==
    /\ pc = "send"
    /\ steps' = Append(steps, "send")
    /\ \E ok \in BOOLEAN, ok2 \in BOOLEAN :
         /\ send_ok' = ok
         /\ sent' = IF ok THEN Append(sent, SetPilot(rgb)) ELSE sent
         /\ printed' = Append(printed, IF ok THEN "color" ELSE "sendfail")
         /\ last_color' = NextLastColor(rgb, last_color, ok)
         /\ shadow' = [shadow EXCEPT
                         !.send_ok = ok2,
                         !.last_color = NextLastColor(shadow.rgb, @, ok2)]
    /\ frames' = frames + 1
    /\ pc' = "locate"
    /\ UNCHANGED <<no_vlc_count, geometry, img, rgb, pre, captured, smoothed,
                   runWaiting, sm, fb>>

\* lines 200-205: KeyboardInterrupt, wherever the loop is
Interrupt ==
    /\ pc \in {"locate", "capture", "edge", "smooth", "enhance", "send"}
    /\ pc' = "stopped"
    /\ UNCHANGED <<last_color, no_vlc_count, geometry, img, rgb, pre, captured,
                   steps, printed, sent, send_ok, smoothed, runWaiting, frames,
                   shadow, sm, fb>>

Next ==
    \/ Locate
    \/ Capture
    \/ EdgeAverage
    \/ Smooth
    \/ Enhance
    \/ Send
    \/ Interrupt

Spec == Init /\ [][Next]_vars

----------------------------------------------------------------------------
(* smooth_color on one channel, fed the same input again and again *)

InitSmooth ==
    /\ MainInit
    /\ fb = FbInit
    /\ \E a \in 0..255, b \in 0..255 :
         sm = [new |-> a, prev |-> b, cur |-> b, n |-> 0]

SmoothStep ==
    /\ sm.n < MaxSmooth
    /\ sm' = [new  |-> sm.new,
              prev |-> sm.cur,
              cur  |-> smooth_color(<<sm.new, sm.new, sm.new>>,
                                    <<sm.cur, sm.cur, sm.cur>>)[1],
              n    |-> sm.n + 1]
    /\ UNCHANGED <<mainVars, fb>>

NextSmooth == SmoothStep

SpecSmooth == InitSmooth /\ [][NextSmooth]_vars

----------------------------------------------------------------------------
(* find_bulb.py *)

\* lines 5-13: the socket, the getPilot broadcast, the banner
FbBroadcast ==
    /\ fb.pc = "start"
    /\ fb' = [fb EXCEPT !.pc = "listening", !.open = TRUE, !.queries = @ + 1,
                        !.out = Append(@, <<"searching">>)]
    /\ UNCHANGED <<mainVars, sm>>

\* a host that has not answered yet answers the broadcast
FbReply ==
    /\ fb.pc = "listening"
    /\ \E d \in Replies :
         /\ d.addr \notin fb.replied
         /\ fb' = [fb EXCEPT !.inflight = @ \cup {d}, !.replied = @ \cup {d.addr}]
    /\ UNCHANGED <<mainVars, sm>>

\* lines 18-20: recvfrom returns a reply; the address is printed, then
\* data.decode() raises on bytes that are no UTF-8 text: the finally clause
\* closes the socket and the exception leaves the script
FbRecv ==
    /\ fb.pc = "listening"
    /\ \E d \in fb.inflight :
         fb' = IF d.text
               THEN [fb EXCEPT !.inflight = @ \ {d},
                               !.out = @ \o << <<"found", d.addr>>,
                                               <<"response", d.addr>> >>]
               ELSE [fb EXCEPT !.inflight = @ \ {d},
                               !.out = Append(@, <<"found", d.addr>>),
                               !.open = FALSE,
                               !.pc = "raised"]
    /\ UNCHANGED <<mainVars, sm>>

\* lines 21-24: no reply for 2 seconds: socket.timeout, "Search complete."
FbTimeout ==
    /\ fb.pc = "listening"
    /\ fb.inflight = {}
    /\ fb' = [fb EXCEPT !.out = Append(@, <<"complete">>), !.open = FALSE,
                        !.pc = "done"]
    /\ UNCHANGED <<mainVars, sm>>

NextFind ==
    \/ FbBroadcast
    \/ FbReply
    \/ FbRecv
    \/ FbTimeout

SpecFind == Init /\ [][NextFind]_vars

----------------------------------------------------------------------------
(* Claims *)

\* C1: the previous colour fed into smooth_color is the smoothed, not yet
\* enhanced colour of the last cycle that ran the transforms, so that
\* enhance_color is never applied on top of an already enhanced value.
C1_PreviousColourIsPreEnhancement ==
    (pc = "locate" /\ frames > 0) => last_color = smoothed

\* C2: no failure of the window query, the capture, the transforms or the
\* send ends the loop, and capture_window never hands an image whose pixel
\* data is cut short to the colour transform.
C2_NoErrorIsFatal ==
    /\ pc # "crashed"
    /\ (pc = "edge" => img.data = "whole")

\* C3 (as stated): a found window in an iteration that begins in searching,
\* the initial state included, resets the miss counter and prints "detected"
\* once; in streaming no "detected" is printed.
C3_DetectedFromSearchingOrStart ==
    pc = "capture" =>
        IF pre.geometry = None
        THEN printed = <<"detected">> /\ no_vlc_count = 0
        ELSE printed = <<>>

\* C3 (amended): a found window in an iteration that begins after at least
\* one miss resets the miss counter and prints "detected" exactly once; a
\* found window with the counter at 0, which is the case at start-up and in
\* streaming, prints no "detected".
C3_DetectedAfterMiss ==
    pc = "capture" =>
        /\ no_vlc_count = 0
        /\ IF pre.no_vlc_count > 0
           THEN printed = <<"detected">> /\ pre.geometry = None
           ELSE printed = <<>>
        /\ (pre.geometry # None => printed = <<>>)

C3_Witness ==
    /\ pc = "capture"
    /\ frames > 0
    /\ pre.no_vlc_count = 2
    /\ printed = <<"detected">>

\* C4: in a run of misses "waiting" is printed on the 1st, 11th, 21st ...
\* miss (one notice for a run of 1 to 10 misses), a miss sends no colour and
\* leaves the previous colour alone, and a found window leaves the counter at
\* 0 so that the next run starts the throttle again.
C4_WaitingThrottled ==
    /\ runWaiting = (no_vlc_count + 9) \div 10
    /\ (no_vlc_count \in 1..10 => runWaiting = 1)
    /\ (pc = "locate" /\ steps = <<"locate">>) =>
          /\ geometry = None
          /\ no_vlc_count = pre.no_vlc_count + 1
          /\ printed = IF pre.no_vlc_count % 10 = 0 THEN <<"waiting">> ELSE <<>>
          /\ sent = <<>>
          /\ last_color = pre.last_color
    /\ (pc = "capture" => no_vlc_count = 0 /\ runWaiting = 0)

C4_Witness ==
    /\ frames > 0
    /\ last_color # Black
    /\ no_vlc_count = 11
    /\ runWaiting = 2
    /\ printed = <<"waiting">>

\* C5: two runs that see the same locator and capture results and differ in
\* the outcomes of their sends hold the same previous colour and the same
\* miss counter at every point.
C5_SendOutcomeDoesNotDisturbFilter ==
    /\ shadow.last_color = last_color
    /\ shadow.no_vlc_count = no_vlc_count

C5_Witness ==
    /\ pc = "locate"
    /\ frames >= 2
    /\ Len(steps) = 6
    /\ send_ok # shadow.send_ok
    /\ last_color # pre.last_color

\* C6 (as stated): when the window is found and capture_window returns None,
\* the iteration runs no transform, sends nothing and leaves the previous
\* colour and the miss counter as they were when it began.
C6_CaptureFailureChangesNothing ==
    captured \in CaptureFailures =>
        /\ pc \in {"locate", "stopped"}
        /\ steps = <<"locate", "capture">>
        /\ sent = <<>>
        /\ last_color = pre.last_color
        /\ no_vlc_count = pre.no_vlc_count

\* C6 (amended): when the window is found and capture_window returns None,
\* the iteration runs no transform, sends nothing and leaves the previous
\* colour as it was; the miss counter is 0, having been reset before the
\* capture if the iteration began after a miss.
C6_CaptureFailureKeepsColour ==
    captured \in CaptureFailures =>
        /\ pc \in {"locate", "stopped"}
        /\ steps = <<"locate", "capture">>
        /\ sent = <<>>
        /\ last_color = pre.last_color
        /\ no_vlc_count = 0
        /\ (pre.no_vlc_count > 0 <=> printed = <<"detected">>)

C6_Witness ==
    /\ pc = "locate"
    /\ captured = "nonzero"
    /\ frames > 0
    /\ last_color # Black
    /\ pre.no_vlc_count > 0

\* C7: the previous colour, the working colour and the r, g, b of every
\* setPilot command are integers in 0..255.
C7_ChannelsInRange ==
    /\ InRange(last_color)
    /\ InRange(rgb)
    /\ \A k \in 1..Len(sent) :
         /\ sent[k].params.r \in 0..255
         /\ sent[k].params.g \in 0..255
         /\ sent[k].params.b \in 0..255

C7_Witness ==
    /\ pc = "locate"
    /\ Len(sent) = 1
    /\ sent[1].params.b = 255
    /\ last_color = <<0, 0, 255>>
    /\ pre.last_color = <<0, 0, 210>>

\* C8 (as stated): smooth_color returns 0.75*new + 0.25*previous rounded to
\* the nearest integer, and under a constant input the filter state reaches
\* exactly that input.
C8_RoundsToNearest ==
    /\ sm.n > 0 => sm.cur = smooth_channel_round(sm.new, sm.prev)
    /\ sm.n >= 5 => sm.cur = sm.new

\* C8 (amended): smooth_color returns 0.75*new + 0.25*previous truncated to
\* an integer (the floor of (3*new + previous)/4), and under a constant input
\* the filter state settles within five applications on that input when it
\* started at or above it, and one below it when it started below.
C8_Truncates ==
    /\ sm.n > 0 =>
          /\ 4 * sm.cur <= 3 * sm.new + sm.prev
          /\ 3 * sm.new + sm.prev < 4 * sm.cur + 4
          /\ (sm.prev >= sm.new => sm.cur >= sm.new)
          /\ (sm.prev < sm.new => sm.cur < sm.new)
    /\ sm.n >= 5 =>
          /\ sm.cur \in {sm.new - 1, sm.new}
          /\ sm.prev = sm.cur

C8_Witness ==
    /\ sm.n >= 5
    /\ sm.new = 255
    /\ sm.cur = 254

\* C9: after its one getPilot broadcast the discovery script prints every
\* responding address once and ends only by the idle timeout, printing the
\* end-of-scan line, with the socket closed.
C9_EndsOnlyByTimeout ==
    /\ fb.queries <= 1
    /\ fb.pc # "raised"
    /\ fb.pc = "done" =>
          /\ ~fb.open
          /\ fb.out[Len(fb.out)] = <<"complete">>
          /\ \A a \in fb.replied :
               Cardinality({k \in 1..Len(fb.out) : fb.out[k] = <<"found", a>>}) = 1

StepOrder == <<"locate", "capture", "edge", "smooth", "enhance", "send">>

====
